---- MODULE Spec2Model ----
(***************************************************************************)
(* Spaced-repetition scheduler of italian-trainer                          *)
(* (src/database/vocab_db.py): the word_stats and quiz_history tables and  *)
(* the operations record_quiz_result, get_words_for_quiz,                  *)
(* mark_words_selected, get_weak_words, get_stats and get_detailed_stats.  *)
(*                                                                         *)
(* Numbers.  The code computes with Python floats and SQLite REALs.  The   *)
(* model computes the same expressions exactly, on decimals:               *)
(*   - easiness_factor is an integer number of hundredths (2.5 is 250);    *)
(*   - interval_days, next_review, last_seen and last_selected are         *)
(*     decimals [num, exp] standing for num / 10^exp days, kept in lowest  *)
(*     terms; the clock `now` counts whole days since the store was        *)
(*     created.                                                            *)
(*                                                                         *)
(* Calls.  Each function is one atomic action (the callers in              *)
(* src/app/vocab_quiz.py run them one after the other).  The action leaves *)
(* in lastCall its arguments, the rows it read and what it returns or      *)
(* raises; Return hands the result to the caller and the next call starts. *)
(*                                                                         *)
(* Requests.  SpecConc runs record_quiz_result statement by statement for  *)
(* two web requests at once, each on its own connection (conns).           *)
(***************************************************************************)
EXTENDS Integers, Sequences, FiniteSets, TLC

\* ------------------------------------------------------------------------
\* Bounds of the model
\* ------------------------------------------------------------------------
\* the vocabulary
Words == {"casa", "cane"}
\* the larger vocabulary of SpecSessions, where a session is smaller than the
\* vocabulary; TableWords are the word_italian keys the table can hold
SessionWords == {"casa", "cane", "gatto"}
TableWords == Words \cup SessionWords
\* the quiz_type tags callers pass
QuizTypes == {"standard", "retry"}
\* the requests to /api/record that can be in progress at once
Requests == {"r1", "r2"}
\* rows of quiz_history in Spec, where outcomes go to every word
MaxHistory == 3
\* rows of quiz_history in SpecItem, where every outcome goes to ItemWord
MaxOutcomes == 5
\* rows of quiz_history in SpecSessions, SpecCategory and SpecRace
MaxSessionOutcomes == 2
\* days the clock runs
MaxTime == 1
\* largest n passed to get_words_for_quiz (the smallest is -1)
MaxN == 3
\* longest word_list passed to mark_words_selected
MaxList == 2

\* a NULL column value, and the absence of a row for a word
NULL == [null |-> TRUE]
NoRow == [absent |-> TRUE]

\* ------------------------------------------------------------------------
\* Exact decimals
\* ------------------------------------------------------------------------
RECURSIVE Pow10(_)
Pow10(e) == IF e = 0 THEN 1 ELSE 10 * Pow10(e - 1)

RECURSIVE Norm(_)
Norm(d) == IF d.exp > 0 /\ d.num % 10 = 0
           THEN Norm([num |-> d.num \div 10, exp |-> d.exp - 1])
           ELSE d

Days(n) == [num |-> n, exp |-> 0]
HalfDay == [num |-> 5, exp |-> 1]

DecAdd(a, b) ==
    LET e == IF a.exp > b.exp THEN a.exp ELSE b.exp
    IN  Norm([num |-> a.num * Pow10(e - a.exp) + b.num * Pow10(e - b.exp), exp |-> e])

\* comparison, after scaling the operand with fewer decimals
DecLeq(a, b) ==
    IF a.exp <= b.exp THEN a.num * Pow10(b.exp - a.exp) <= b.num
    ELSE a.num <= b.num * Pow10(a.exp - b.exp)

DecLt(a, b) ==
    IF a.exp <= b.exp THEN a.num * Pow10(b.exp - a.exp) < b.num
    ELSE a.num < b.num * Pow10(a.exp - b.exp)

\* d * (ef / 100)
MulEF(d, ef) == Norm([num |-> d.num * ef, exp |-> d.exp + 2])

Max(a, b) == IF a >= b THEN a ELSE b
Min(a, b) == IF a <= b THEN a ELSE b

\* ------------------------------------------------------------------------
\* State
\* ------------------------------------------------------------------------
VARIABLES word_stats, quiz_history, now, lastCall, conns

vars == <<word_stats, quiz_history, now, lastCall, conns>>

\* column defaults of CREATE TABLE word_stats
DEFAULT_EF == 250
DEFAULT_INTERVAL == Days(1)
DEFAULT_STREAK == 0

\* constants of the SM-2 update
EF_MIN == 130
QUALITY_CORRECT == 5
QUALITY_INCORRECT == 2

\* lastCall: the call that has just completed, with its arguments, what it
\* read and what it returns; Idle when the caller has taken the result
Idle == [op |-> "none"]

\* a request without a call in progress
Closed == [pc |-> "closed"]

Init ==
    /\ word_stats = [w \in TableWords |-> NoRow]
    /\ quiz_history = <<>>
    /\ now = 0
    /\ lastCall = Idle
    /\ conns = [p \in Requests |-> Closed]

\* ------------------------------------------------------------------------
\* record_quiz_result
\* ------------------------------------------------------------------------
\* EFUpdate without the max(1.3, ...)
EFUpdateNoFloor(ef, quality) ==
    ef + (10 - (5 - quality) * (8 + (5 - quality) * 2))

\* max(1.3, ef + (0.1 - (5 - quality) * (0.08 + (5 - quality) * 0.02))), in
\* hundredths
EFUpdate(ef, quality) ==
    Max(EF_MIN, ef + (10 - (5 - quality) * (8 + (5 - quality) * 2)))

\* NextInterval that leaves the interval alone on a wrong answer
NextIntervalNoReset(interval, correct, streak, ef) ==
    IF ~correct THEN interval
    ELSE IF streak = 1 THEN Days(1)
    ELSE IF streak = 2 THEN Days(6)
    ELSE MulEF(interval, ef)

\* NextInterval without the six-day second repetition
NextIntervalNoSecondStep(interval, correct, streak, ef) ==
    IF ~correct THEN Days(1)
    ELSE IF streak = 1 THEN Days(1)
    ELSE MulEF(interval, ef)

\* NextInterval that multiplies by the default easiness factor
NextIntervalDefaultEF(interval, correct, streak, ef) ==
    IF ~correct THEN Days(1)
    ELSE IF streak = 1 THEN Days(1)
    ELSE IF streak = 2 THEN Days(6)
    ELSE MulEF(interval, DEFAULT_EF)

\* NextInterval that takes the easiness factor itself as the interval
NextIntervalIsEF(interval, correct, streak, ef) ==
    IF ~correct THEN Days(1)
    ELSE IF streak = 1 THEN Days(1)
    ELSE IF streak = 2 THEN Days(6)
    ELSE MulEF(Days(1), ef)

\* "Calculate next interval": the interval after an outcome, from the
\* interval before it, the updated streak and the updated easiness factor
NextInterval(interval, correct, streak, ef) ==
    IF ~correct THEN Days(1)
    ELSE IF streak = 1 THEN Days(1)
    ELSE IF streak = 2 THEN Days(6)
    ELSE MulEF(interval, ef)

\* UpdatedRow that schedules the review with the interval before the outcome
UpdatedRowOldInterval(row, correct, t) ==
    LET streak == IF correct THEN row.consecutive_correct + 1 ELSE 0
        quality == IF correct THEN QUALITY_CORRECT ELSE QUALITY_INCORRECT
        ef == EFUpdate(row.easiness_factor, quality)
    IN  [row EXCEPT !.times_seen = row.times_seen + 1,
                    !.times_correct = IF correct THEN row.times_correct + 1
                                      ELSE row.times_correct,
                    !.last_seen = Days(t),
                    !.next_review = DecAdd(Days(t), row.interval_days),
                    !.easiness_factor = ef,
                    !.interval_days = NextInterval(row.interval_days, correct, streak, ef),
                    !.consecutive_correct = streak]

\* UpdatedRow that forgets when the word was last offered
UpdatedRowClearsSelected(row, correct, t) ==
    [row EXCEPT !.times_seen = row.times_seen + 1,
                !.times_correct = IF correct THEN row.times_correct + 1
                                  ELSE row.times_correct,
                !.last_seen = Days(t),
                !.next_review = DecAdd(Days(t), Days(1)),
                !.last_selected = NULL]

\* the row written by the UPDATE branch (a row for the word exists)
UpdatedRow(row, correct, t) ==
    LET times_seen == row.times_seen + 1
        times_correct == IF correct THEN row.times_correct + 1 ELSE row.times_correct
        streak == IF correct THEN row.consecutive_correct + 1 ELSE 0
        quality == IF correct THEN QUALITY_CORRECT ELSE QUALITY_INCORRECT
        ef == EFUpdate(row.easiness_factor, quality)
        interval == NextInterval(row.interval_days, correct, streak, ef)
    IN  [row EXCEPT !.times_seen = times_seen,
                    !.times_correct = times_correct,
                    !.last_seen = Days(t),
                    !.next_review = DecAdd(Days(t), interval),
                    !.easiness_factor = ef,
                    !.interval_days = interval,
                    !.consecutive_correct = streak]

\* InsertedRow that does not count a correct first answer
InsertedRowNoCredit(correct, t) ==
    LET interval == IF correct THEN Days(1) ELSE HalfDay
    IN  [times_seen |-> 1,
         times_correct |-> 0,
         last_seen |-> Days(t),
         next_review |-> DecAdd(Days(t), interval),
         easiness_factor |-> DEFAULT_EF,
         interval_days |-> interval,
         consecutive_correct |-> IF correct THEN 1 ELSE 0,
         last_selected |-> NULL]

\* the row written by the INSERT branch (first time seeing this word)
InsertedRow(correct, t) ==
    LET interval == IF correct THEN Days(1) ELSE HalfDay
    IN  [times_seen |-> 1,
         times_correct |-> IF correct THEN 1 ELSE 0,
         last_seen |-> Days(t),
         next_review |-> DecAdd(Days(t), interval),
         easiness_factor |-> DEFAULT_EF,
         interval_days |-> interval,
         consecutive_correct |-> IF correct THEN 1 ELSE 0,
         last_selected |-> NULL]

RecordQuizResult(word, correct, quiz_type) ==
    /\ lastCall = Idle
    /\ quiz_history' = Append(quiz_history,
                              [word_italian |-> word, correct |-> correct,
                               quiz_type |-> quiz_type])
    /\ word_stats' = [word_stats EXCEPT ![word] =
                        IF word_stats[word] # NoRow
                        THEN UpdatedRow(word_stats[word], correct, now)
                        ELSE InsertedRow(correct, now)]
    /\ lastCall' = [op |-> "record_quiz_result", word |-> word,
                    correct |-> correct, quiz_type |-> quiz_type,
                    prior |-> word_stats[word]]
    /\ UNCHANGED <<now, conns>>

\* ------------------------------------------------------------------------
\* mark_words_selected
\* ------------------------------------------------------------------------
\* SelectedRow that counts the selection as a sighting
SelectedRowSeenOnce(t) ==
    [times_seen |-> 1,
     times_correct |-> 0,
     last_seen |-> NULL,
     next_review |-> NULL,
     easiness_factor |-> DEFAULT_EF,
     interval_days |-> DEFAULT_INTERVAL,
     consecutive_correct |-> DEFAULT_STREAK,
     last_selected |-> Days(t)]

\* the row written by INSERT (word_italian, times_seen, times_correct,
\* last_selected) VALUES (?, 0, 0, ?): the other columns take their defaults
SelectedRow(t) ==
    [times_seen |-> 0,
     times_correct |-> 0,
     last_seen |-> NULL,
     next_review |-> NULL,
     easiness_factor |-> DEFAULT_EF,
     interval_days |-> DEFAULT_INTERVAL,
     consecutive_correct |-> DEFAULT_STREAK,
     last_selected |-> Days(t)]

\* MarkOne without the UPDATE branch: a row that exists keeps its last_selected
MarkOneInsertOnly(stats, word, t) ==
    [stats EXCEPT ![word] =
        IF stats[word] = NoRow
        THEN SelectedRow(t)
        ELSE stats[word]]

\* MarkOne that counts the selection of a word with a row as a sighting
MarkOneCountsSighting(stats, word, t) ==
    [stats EXCEPT ![word] =
        IF stats[word] = NoRow
        THEN SelectedRow(t)
        ELSE [stats[word] EXCEPT !.last_selected = Days(t),
                                 !.times_seen = stats[word].times_seen + 1]]

\* one iteration of the loop over word_list
MarkOne(stats, word, t) ==
    [stats EXCEPT ![word] =
        IF stats[word] = NoRow
        THEN SelectedRow(t)
        ELSE [stats[word] EXCEPT !.last_selected = Days(t)]]

\* the whole loop: the table after every word of word_list is marked
RECURSIVE MarkAll(_, _, _)
MarkAll(stats, word_list, t) ==
    IF word_list = <<>> THEN stats
    ELSE MarkAll(MarkOne(stats, Head(word_list), t), Tail(word_list), t)

MarkWordsSelected(word_list) ==
    /\ lastCall = Idle
    /\ word_stats' = MarkAll(word_stats, word_list, now)
    /\ lastCall' = [op |-> "mark_words_selected", word_list |-> word_list,
                    prior |-> word_stats]
    /\ UNCHANGED <<quiz_history, now, conns>>

\* ------------------------------------------------------------------------
\* get_words_for_quiz
\* ------------------------------------------------------------------------
KnownWords(stats) == {w \in TableWords : stats[w] # NoRow}

\* CAST(times_correct AS FLOAT) / times_seen is NULL when times_seen = 0,
\* and a comparison with NULL is not true
RatioBelow07(r) == r.times_seen # 0 /\ 10 * r.times_correct < 7 * r.times_seen
RatioAtLeast07(r) == r.times_seen # 0 /\ 10 * r.times_correct >= 7 * r.times_seen

\* WHERE next_review <= now OR ratio < 0.7
WeakWhere(r, t) ==
    \/ r.next_review # NULL /\ DecLeq(r.next_review, Days(t))
    \/ RatioBelow07(r)

\* ReviewWhere without the clause on last_selected
ReviewWhereAnySelection(r, t) ==
    /\ RatioAtLeast07(r)
    /\ r.next_review # NULL /\ DecLt(Days(t), r.next_review)

\* ReviewWhere without the clause next_review > now
ReviewWhereAlsoDue(r, t) ==
    /\ RatioAtLeast07(r)
    /\ (r.last_selected = NULL \/ DecLt(r.last_selected, Days(t - 1)))

\* WHERE ratio >= 0.7 AND next_review > now
\*       AND (last_selected IS NULL OR last_selected < yesterday)
ReviewWhere(r, t) ==
    /\ RatioAtLeast07(r)
    /\ r.next_review # NULL /\ DecLt(Days(t), r.next_review)
    /\ (r.last_selected = NULL \/ DecLt(r.last_selected, Days(t - 1)))

\* ascending order of a nullable timestamp column, NULLs first
NullsFirstLt(x, y) ==
    IF x = NULL THEN y # NULL ELSE y # NULL /\ DecLt(x, y)

\* ascending order of the success ratio, NULLs first
RatioLt(a, b) ==
    IF a.times_seen = 0 THEN b.times_seen # 0
    ELSE b.times_seen # 0 /\ a.times_correct * b.times_seen < b.times_correct * a.times_seen

\* ORDER BY next_review ASC, ratio ASC
WeakBefore(a, b) ==
    \/ NullsFirstLt(a.next_review, b.next_review)
    \/ a.next_review = b.next_review /\ RatioLt(a, b)

\* ORDER BY last_selected ASC NULLS FIRST
ReviewBefore(a, b) == NullsFirstLt(a.last_selected, b.last_selected)

\* ORDER BY ... LIMIT n over the rows named by `names`, `before` holding the
\* pairs <<a, b>> where row a sorts strictly before row b: every result the
\* query can give (rows that tie in the order come in any order; a negative
\* LIMIT is no limit)
Limit(names, n, before) ==
    IF n < 0 THEN {names}
    ELSE {S \in SUBSET names :
            /\ Cardinality(S) = Min(n, Cardinality(names))
            /\ \A a \in S, b \in names \ S : <<b, a>> \notin before}

WeakQuery(stats, t, n) ==
    LET names == {w \in KnownWords(stats) : WeakWhere(stats[w], t)}
    IN  Limit(names, n, {p \in names \X names : WeakBefore(stats[p[1]], stats[p[2]])})

ReviewQuery(stats, t, n) ==
    LET names == {w \in KnownWords(stats) : ReviewWhere(stats[w], t)}
    IN  Limit(names, n, {p \in names \X names : ReviewBefore(stats[p[1]], stats[p[2]])})

\* Python int(): truncation toward zero of a / b
Trunc(a, b) == IF a >= 0 THEN a \div b ELSE -((-a) \div b)

NewTarget(n) == Max(1, Trunc(3 * n, 10))
WeakTarget(n) == Max(1, Trunc(4 * n, 10))
ReviewTarget(n) == n - NewTarget(n) - WeakTarget(n)

\* random.sample(population, k), 0 <= k <= len(population), as a set
Sample(population, k) == {S \in SUBSET population : Cardinality(S) = k}

\* a list holding the elements of a set
RECURSIVE SetToSeq(_)
SetToSeq(S) ==
    IF S = {} THEN <<>>
    ELSE LET x == CHOOSE y \in S : TRUE IN <<x>> \o SetToSeq(S \ {x})

SeqRange(s) == {s[i] : i \in 1..Len(s)}

\* [w for w in all_words if w not in selected]
Remaining(all_words, selected) == all_words \ SeqRange(selected)

\* Filled without the fallback: `selected` stays as the three draws left it
FilledNoFallback(all_words, selected, n) == {selected}

\* the lists `selected` can be after the fallback fill
Filled(all_words, selected, n) ==
    IF Len(selected) < n /\ Remaining(all_words, selected) # {}
    THEN LET remaining == Remaining(all_words, selected)
             needed == n - Len(selected)
         IN  {selected \o SetToSeq(S) :
                 S \in Sample(remaining, Min(needed, Cardinality(remaining)))}
    ELSE {selected}

\* random.shuffle(selected): every order of the list
Shuffled(s) ==
    IF s = <<>> THEN {<<>>}
    ELSE {[i \in 1..Len(s) |-> s[p[i]]] : p \in Permutations(1..Len(s))}

\* random.sample(words, min(target, len(words))) if words else []
Drawn(words, target) ==
    IF words = {} THEN {{}} ELSE Sample(words, Min(target, Cardinality(words)))

\* random.sample raises ValueError for a negative sample size
DrawRaises(words, target) == words # {} /\ Min(target, Cardinality(words)) < 0

GetWordsForQuiz(all_words, n) ==
    /\ lastCall = Idle
    /\ \E weak_word_names \in WeakQuery(word_stats, now, n),
       review_word_names \in ReviewQuery(word_stats, now, n) :
      LET known_words == KnownWords(word_stats)
          new_words == all_words \ known_words
          known_word_objs == all_words \cap known_words
          weak_words == known_word_objs \cap weak_word_names
          review_words == known_word_objs \cap review_word_names
          call == [op |-> "get_words_for_quiz", all_words |-> all_words, n |-> n,
                   new_words |-> new_words, weak_words |-> weak_words,
                   review_words |-> review_words, prior |-> word_stats,
                   raised |-> FALSE, selected |-> <<>>]
      IN  IF \/ DrawRaises(new_words, NewTarget(n))
             \/ DrawRaises(weak_words, WeakTarget(n))
             \/ DrawRaises(review_words, ReviewTarget(n))
          THEN \* ValueError leaves the function before mark_words_selected
               /\ lastCall' = [call EXCEPT !.raised = TRUE]
               /\ UNCHANGED <<word_stats, quiz_history, now, conns>>
          ELSE \E selected_new \in Drawn(new_words, NewTarget(n)),
                  selected_weak \in Drawn(weak_words, WeakTarget(n)),
                  selected_review \in Drawn(review_words, ReviewTarget(n)) :
                 \E filled \in Filled(all_words,
                                      SetToSeq(selected_new) \o SetToSeq(selected_weak)
                                         \o SetToSeq(selected_review), n) :
                    \E selected \in Shuffled(filled) :
                       /\ word_stats' = MarkAll(word_stats, selected, now)
                       /\ lastCall' = [call EXCEPT !.selected = selected]
                       /\ UNCHANGED <<quiz_history, now, conns>>

\* ------------------------------------------------------------------------
\* get_weak_words, get_stats, get_detailed_stats
\* ------------------------------------------------------------------------
\* LIMIT 10 of the statistics queries; WHERE times_seen >= 3 of top_words
STATS_LIMIT == 10
TOP_MIN_SEEN == 3

\* CAST(times_correct AS FLOAT) / times_seen, as the fraction it stands for:
\* NULL when times_seen = 0
Rate(r) ==
    IF r.times_seen = 0 THEN NULL
    ELSE [num |-> r.times_correct, den |-> r.times_seen]

\* the same ratio * 100 (NULL * 100 is NULL)
RatePercent(r) ==
    IF r.times_seen = 0 THEN NULL
    ELSE [num |-> 100 * r.times_correct, den |-> r.times_seen]

\* two rows with the same success ratio (two NULLs tie in ORDER BY)
RatioEq(a, b) ==
    IF a.times_seen = 0 THEN b.times_seen = 0
    ELSE b.times_seen # 0 /\ a.times_correct * b.times_seen = b.times_correct * a.times_seen

\* ORDER BY success_rate ASC, times_seen DESC
WeakestBefore(a, b) ==
    \/ RatioLt(a, b)
    \/ RatioEq(a, b) /\ a.times_seen > b.times_seen

\* ORDER BY success_rate DESC, consecutive_correct DESC
TopBefore(a, b) ==
    \/ RatioLt(b, a)
    \/ RatioEq(a, b) /\ a.consecutive_correct > b.consecutive_correct

\* ORDER BY ... LIMIT n as the list fetchall() returns: every order of the
\* rows named by `names` that agrees with `before`, cut to its first n rows
LimitRows(names, n, before) ==
    LET k == Cardinality(names)
        ordered == {s \in [1..k -> names] :
                       /\ \A i, j \in 1..k : s[i] = s[j] => i = j
                       /\ \A i, j \in 1..k : i < j => <<s[j], s[i]>> \notin before}
    IN  {IF n < 0 THEN s ELSE SubSeq(s, 1, Min(n, k)) : s \in ordered}

\* get_weak_words(limit): the word_italian column of the Weak query
WeakWordsQuery(stats, t, limit) ==
    LET names == {w \in KnownWords(stats) : WeakWhere(stats[w], t)}
    IN  LimitRows(names, limit, {p \in names \X names : WeakBefore(stats[p[1]], stats[p[2]])})

GetWeakWords(limit) ==
    /\ lastCall = Idle
    /\ \E weak_words \in WeakWordsQuery(word_stats, now, limit) :
          lastCall' = [op |-> "get_weak_words", limit |-> limit,
                       weak_words |-> weak_words]
    /\ UNCHANGED <<word_stats, quiz_history, now, conns>>

\* SELECT COUNT(*) FROM quiz_history WHERE correct = 1
TotalCorrect(history) == Cardinality({i \in 1..Len(history) : history[i].correct})

\* the weakest-words query of get_stats and get_detailed_stats: every row of
\* word_stats, no WHERE clause
WeakestQuery(stats) ==
    LET names == KnownWords(stats)
    IN  LimitRows(names, STATS_LIMIT,
                  {p \in names \X names : WeakestBefore(stats[p[1]], stats[p[2]])})

\* a row (word_italian, times_seen, times_correct, success_rate) of get_stats
StatsRow(stats, w) ==
    [word |-> w, seen |-> stats[w].times_seen, correct |-> stats[w].times_correct,
     rate |-> Rate(stats[w])]

GetStats ==
    /\ lastCall = Idle
    /\ \E weak \in WeakestQuery(word_stats) :
          lastCall' = [op |-> "get_stats",
                       total_words |-> Cardinality(KnownWords(word_stats)),
                       total_attempts |-> Len(quiz_history),
                       total_correct |-> TotalCorrect(quiz_history),
                       weak_words |-> [i \in 1..Len(weak) |-> StatsRow(word_stats, weak[i])]]
    /\ UNCHANGED <<word_stats, quiz_history, now, conns>>

\* the top-performing query of get_detailed_stats
TopQuery(stats) ==
    LET names == {w \in KnownWords(stats) : stats[w].times_seen >= TOP_MIN_SEEN}
    IN  LimitRows(names, STATS_LIMIT,
                  {p \in names \X names : TopBefore(stats[p[1]], stats[p[2]])})

\* SELECT COUNT(*) FROM word_stats WHERE next_review < ?
DueCountStrict(stats, t) ==
    Cardinality({w \in KnownWords(stats) :
                    stats[w].next_review # NULL /\ DecLt(stats[w].next_review, Days(t))})

\* SELECT COUNT(*) FROM word_stats WHERE next_review <= ?
DueCount(stats, t) ==
    Cardinality({w \in KnownWords(stats) :
                    stats[w].next_review # NULL /\ DecLeq(stats[w].next_review, Days(t))})

\* MAX(consecutive_correct), 0 for an empty table
BestStreak(stats) ==
    IF KnownWords(stats) = {} THEN 0
    ELSE CHOOSE m \in {stats[w].consecutive_correct : w \in KnownWords(stats)} :
            \A w \in KnownWords(stats) : stats[w].consecutive_correct <= m

\* the entries of top_words and weak_words in the dictionary returned
DetailedRow(stats, w) ==
    [word |-> w, seen |-> stats[w].times_seen, correct |-> stats[w].times_correct,
     rate |-> RatePercent(stats[w]), ef |-> stats[w].easiness_factor]

\* the dictionary returned, without daily_performance, quiz_types, accuracy
\* and avg_streak (aggregates that no other entry depends on)
GetDetailedStats ==
    /\ lastCall = Idle
    /\ \E top \in TopQuery(word_stats), weak \in WeakestQuery(word_stats) :
          lastCall' = [op |-> "get_detailed_stats",
                       total_words |-> Cardinality(KnownWords(word_stats)),
                       total_attempts |-> Len(quiz_history),
                       total_correct |-> TotalCorrect(quiz_history),
                       best_streak |-> BestStreak(word_stats),
                       top_words |-> [i \in 1..Len(top) |-> DetailedRow(word_stats, top[i])],
                       weak_words |-> [i \in 1..Len(weak) |-> DetailedRow(word_stats, weak[i])],
                       due_for_review |-> DueCount(word_stats, now)]
    /\ UNCHANGED <<word_stats, quiz_history, now, conns>>

\* ------------------------------------------------------------------------
\* The clock
\* ------------------------------------------------------------------------
Tick ==
    /\ lastCall = Idle
    /\ now < MaxTime
    /\ now' = now + 1
    /\ UNCHANGED <<word_stats, quiz_history, lastCall, conns>>

\* the call returns to its caller
Return ==
    /\ lastCall # Idle
    /\ lastCall' = Idle
    /\ UNCHANGED <<word_stats, quiz_history, now, conns>>

\* the lists over a set of words, up to MaxList long
WordLists(words) == UNION {[1..k -> words] : k \in 0..MaxList}

\* Spec: calls in any order on the whole vocabulary; one quiz_type, which
\* record_quiz_result only copies into the history row
Next ==
    \/ \E word \in Words, correct \in BOOLEAN :
          /\ Len(quiz_history) < MaxHistory
          /\ RecordQuizResult(word, correct, "standard")
    \/ \E word_list \in WordLists(Words) : MarkWordsSelected(word_list)
    \/ \E all_words \in SUBSET Words, n \in -1..MaxN : GetWordsForQuiz(all_words, n)
    \/ \E limit \in 0..MaxN : GetWeakWords(limit)
    \/ GetStats
    \/ GetDetailedStats
    \/ Tick
    \/ Return

Spec == Init /\ [][Next]_vars

\* SpecItem: the life of one item, with longer runs of outcomes
ItemWord == "casa"

NextItem ==
    \/ \E correct \in BOOLEAN, quiz_type \in QuizTypes :
          /\ Len(quiz_history) < MaxOutcomes
          /\ RecordQuizResult(ItemWord, correct, quiz_type)
    \/ \E word_list \in WordLists({ItemWord}) : MarkWordsSelected(word_list)
    \/ \E all_words \in SUBSET {ItemWord}, n \in -1..MaxN : GetWordsForQuiz(all_words, n)
    \/ Tick
    \/ Return

SpecItem == Init /\ [][NextItem]_vars

\* ------------------------------------------------------------------------
\* record_quiz_result statement by statement, one connection per request
\* ------------------------------------------------------------------------
\* Each call opens its own sqlite3 connection.  The first statement is the
\* INSERT into quiz_history: the sqlite3 module begins a transaction before
\* it and SQLite gives the database's write lock to one connection at a
\* time, until that connection commits or is closed.  What a transaction
\* wrote is in the tables for other connections only after its commit.

\* a database that lets two transactions write at once
WriteLockAlwaysFree(p) == TRUE

\* no other connection is inside a transaction
WriteLockFree(p) ==
    \A q \in Requests \ {p} :
        IF conns[q] = Closed THEN TRUE ELSE ~conns[q].in_transaction

\* conn = sqlite3.connect(...); c = conn.cursor()
Connect(p, word, correct, quiz_type) ==
    /\ lastCall = Idle
    /\ conns[p] = Closed
    /\ conns' = [conns EXCEPT ![p] =
                    [pc |-> "connected", word |-> word, correct |-> correct,
                     quiz_type |-> quiz_type, in_transaction |-> FALSE,
                     waited |-> FALSE, row |-> NoRow, new_row |-> NoRow]]
    /\ UNCHANGED <<word_stats, quiz_history, now, lastCall>>

\* the INSERT finds the write lock taken: the busy handler waits and retries
Busy(p) ==
    /\ conns[p] # Closed
    /\ conns[p].pc = "connected"
    /\ ~WriteLockFree(p)
    /\ ~conns[p].waited
    /\ conns' = [conns EXCEPT ![p].waited = TRUE]
    /\ UNCHANGED <<word_stats, quiz_history, now, lastCall>>

\* c.execute("INSERT INTO quiz_history ..."): opens the transaction
InsertHistory(p) ==
    /\ conns[p] # Closed
    /\ conns[p].pc = "connected"
    /\ WriteLockFree(p)
    /\ conns' = [conns EXCEPT ![p].pc = "inserted", ![p].in_transaction = TRUE]
    /\ UNCHANGED <<word_stats, quiz_history, now, lastCall>>

\* c.execute("SELECT ... FROM word_stats WHERE word_italian = ?"); fetchone()
SelectRow(p) ==
    /\ conns[p] # Closed
    /\ conns[p].pc = "inserted"
    /\ conns' = [conns EXCEPT ![p].pc = "selected", ![p].row = word_stats[conns[p].word]]
    /\ UNCHANGED <<word_stats, quiz_history, now, lastCall>>

\* the UPDATE or INSERT of word_stats, inside the transaction
WriteRow(p) ==
    /\ conns[p] # Closed
    /\ conns[p].pc = "selected"
    /\ conns' = [conns EXCEPT ![p].pc = "written",
                              ![p].new_row =
                                  IF conns[p].row # NoRow
                                  THEN UpdatedRow(conns[p].row, conns[p].correct, now)
                                  ELSE InsertedRow(conns[p].correct, now)]
    /\ UNCHANGED <<word_stats, quiz_history, now, lastCall>>

\* conn.commit(); conn.close(): the history row and the word_stats row reach
\* the tables together
Commit(p) ==
    /\ conns[p] # Closed
    /\ conns[p].pc = "written"
    /\ quiz_history' = Append(quiz_history,
                              [word_italian |-> conns[p].word,
                               correct |-> conns[p].correct,
                               quiz_type |-> conns[p].quiz_type])
    /\ word_stats' = [word_stats EXCEPT ![conns[p].word] = conns[p].new_row]
    /\ conns' = [conns EXCEPT ![p].pc = "done", ![p].in_transaction = FALSE]
    /\ UNCHANGED <<now, lastCall>>

\* a statement raises (database is locked, disk I/O error, OverflowError of
\* now + timedelta): nothing in record_quiz_result catches it, the caller
\* gets the exception and the connection is left open, uncommitted
Fail(p) ==
    /\ conns[p] # Closed
    /\ conns[p].pc \in {"connected", "inserted", "selected", "written"}
    /\ conns' = [conns EXCEPT ![p].pc = "raised"]
    /\ UNCHANGED <<word_stats, quiz_history, now, lastCall>>

\* closing a connection commits what its transaction wrote
AfterCloseCommits(tables, c) ==
    IF c.new_row = NoRow THEN tables
    ELSE [quiz_history |-> Append(tables.quiz_history,
                                  [word_italian |-> c.word, correct |-> c.correct,
                                   quiz_type |-> c.quiz_type]),
          word_stats |-> [tables.word_stats EXCEPT ![c.word] = c.new_row]]

\* the tables after a connection with an uncommitted transaction is closed:
\* the transaction is rolled back
AfterClose(tables, c) == tables

\* the connection of a failed call is dropped and closed by the interpreter
Collect(p) ==
    /\ conns[p] # Closed
    /\ conns[p].pc = "raised"
    /\ LET tables == AfterClose([quiz_history |-> quiz_history,
                                 word_stats |-> word_stats], conns[p])
       IN  /\ quiz_history' = tables.quiz_history
           /\ word_stats' = tables.word_stats
    /\ conns' = [conns EXCEPT ![p] = Closed]
    /\ UNCHANGED <<now, lastCall>>

\* the call returns None to the request handler
ReturnRequest(p) ==
    /\ conns[p] # Closed
    /\ conns[p].pc = "done"
    /\ conns' = [conns EXCEPT ![p] = Closed]
    /\ UNCHANGED <<word_stats, quiz_history, now, lastCall>>

\* calls in progress
Open == {p \in Requests : conns[p] # Closed}

\* SpecConc: two requests to /api/record at once
NextConc ==
    \/ \E p \in Requests, word \in Words, correct \in BOOLEAN :
          /\ Len(quiz_history) + Cardinality(Open) < MaxHistory
          /\ Connect(p, word, correct, "web")
    \/ \E p \in Requests : Busy(p)
    \/ \E p \in Requests : InsertHistory(p)
    \/ \E p \in Requests : SelectRow(p)
    \/ \E p \in Requests : WriteRow(p)
    \/ \E p \in Requests : Commit(p)
    \/ \E p \in Requests : Fail(p)
    \/ \E p \in Requests : Collect(p)
    \/ \E p \in Requests : ReturnRequest(p)

SpecConc == Init /\ [][NextConc]_vars

\* ------------------------------------------------------------------------
\* get_words_for_quiz and mark_words_selected statement by statement
\* ------------------------------------------------------------------------
\* Both functions start with SELECTs.  The sqlite3 module opens no
\* transaction for a SELECT: each query reads the rows committed when it
\* runs.  The first INSERT or UPDATE of mark_words_selected opens the
\* transaction and takes the write lock, held until conn.commit().

\* a word the transaction has not written
Untouched == [untouched |-> TRUE]

\* the rows a connection reads: its own uncommitted writes over the table
View(c, stats) ==
    [w \in TableWords |-> IF c.pending[w] # Untouched THEN c.pending[w] ELSE stats[w]]

\* mark_words_selected(word_list) starts: conn, c, now = datetime.now()
MarkCall(word_list, t) ==
    [pc |-> IF word_list = <<>> THEN "m_commit" ELSE "m_select",
     op |-> "mark_words_selected", word_list |-> word_list, t |-> t, i |-> 1,
     exists |-> FALSE, pending |-> [w \in TableWords |-> Untouched],
     in_transaction |-> FALSE, from_get |-> FALSE]

MarkConnect(p, word_list) ==
    /\ conns[p] = Closed
    /\ conns' = [conns EXCEPT ![p] = MarkCall(word_list, now)]
    /\ UNCHANGED <<word_stats, quiz_history, now, lastCall>>

\* c.execute("SELECT word_italian FROM word_stats WHERE word_italian = ?");
\* exists = c.fetchone()
MarkSelect(p) ==
    /\ conns[p] # Closed
    /\ conns[p].pc = "m_select"
    /\ LET c == conns[p]
           word == c.word_list[c.i]
       IN  conns' = [conns EXCEPT ![p].pc = "m_write",
                                  ![p].exists = (View(c, word_stats)[word] # NoRow)]
    /\ UNCHANGED <<word_stats, quiz_history, now, lastCall>>

\* if not exists: INSERT (word, 0, 0, now), which raises IntegrityError when
\* the primary key is in the table by now; else: UPDATE last_selected.
\* The statement waits for the write lock unless the transaction is open.
MarkWrite(p) ==
    /\ conns[p] # Closed
    /\ conns[p].pc = "m_write"
    /\ conns[p].in_transaction \/ WriteLockFree(p)
    /\ LET c == conns[p]
           word == c.word_list[c.i]
           row == View(c, word_stats)[word]
           next_pc == IF c.i = Len(c.word_list) THEN "m_commit" ELSE "m_select"
       IN  IF ~c.exists
           THEN IF row # NoRow
                THEN conns' = [conns EXCEPT ![p].pc = "m_raised",
                                            ![p].in_transaction = TRUE]
                ELSE conns' = [conns EXCEPT
                                  ![p].pc = next_pc, ![p].in_transaction = TRUE,
                                  ![p].i = c.i + 1,
                                  ![p].pending[word] = SelectedRow(c.t)]
           ELSE conns' = [conns EXCEPT
                             ![p].pc = next_pc, ![p].in_transaction = TRUE,
                             ![p].i = c.i + 1,
                             ![p].pending[word] =
                                 IF row = NoRow THEN Untouched
                                 ELSE [row EXCEPT !.last_selected = Days(c.t)]]
    /\ UNCHANGED <<word_stats, quiz_history, now, lastCall>>

\* conn.commit(); conn.close()
MarkCommit(p) ==
    /\ conns[p] # Closed
    /\ conns[p].pc = "m_commit"
    /\ word_stats' = View(conns[p], word_stats)
    /\ conns' = [conns EXCEPT ![p].pc = "m_done", ![p].in_transaction = FALSE]
    /\ UNCHANGED <<quiz_history, now, lastCall>>

\* the call returns (get_words_for_quiz returns `selected` after it)
MarkReturn(p) ==
    /\ conns[p] # Closed
    /\ conns[p].pc = "m_done"
    /\ conns' = [conns EXCEPT ![p] = Closed]
    /\ UNCHANGED <<word_stats, quiz_history, now, lastCall>>

\* the exception of a call reaches its caller; the connection is dropped
\* with its transaction uncommitted
Unwind(p) ==
    /\ conns[p] # Closed
    /\ conns[p].pc \in {"m_raised", "g_raised"}
    /\ conns' = [conns EXCEPT ![p] = Closed]
    /\ UNCHANGED <<word_stats, quiz_history, now, lastCall>>

\* get_words_for_quiz(all_words, n) starts: conn, c, now = datetime.now()
GetConnect(p, all_words, n) ==
    /\ conns[p] = Closed
    /\ conns' = [conns EXCEPT ![p] =
                    [pc |-> "g_known", op |-> "get_words_for_quiz",
                     all_words |-> all_words, n |-> n, t |-> now,
                     known_words |-> {}, weak_word_names |-> {},
                     review_word_names |-> {}, in_transaction |-> FALSE]]
    /\ UNCHANGED <<word_stats, quiz_history, now, lastCall>>

\* SELECT word_italian FROM word_stats
GetKnown(p) ==
    /\ conns[p] # Closed
    /\ conns[p].pc = "g_known"
    /\ conns' = [conns EXCEPT ![p].pc = "g_weak",
                              ![p].known_words = KnownWords(word_stats)]
    /\ UNCHANGED <<word_stats, quiz_history, now, lastCall>>

\* the Weak query
GetWeak(p) ==
    /\ conns[p] # Closed
    /\ conns[p].pc = "g_weak"
    /\ \E names \in WeakQuery(word_stats, conns[p].t, conns[p].n) :
          conns' = [conns EXCEPT ![p].pc = "g_review", ![p].weak_word_names = names]
    /\ UNCHANGED <<word_stats, quiz_history, now, lastCall>>

\* the Review query; conn.close()
GetReview(p) ==
    /\ conns[p] # Closed
    /\ conns[p].pc = "g_review"
    /\ \E names \in ReviewQuery(word_stats, conns[p].t, conns[p].n) :
          conns' = [conns EXCEPT ![p].pc = "g_draw", ![p].review_word_names = names]
    /\ UNCHANGED <<word_stats, quiz_history, now, lastCall>>

\* the targets, the three draws, the fallback, the shuffle, and the call of
\* mark_words_selected on the result
GetDraw(p) ==
    /\ conns[p] # Closed
    /\ conns[p].pc = "g_draw"
    /\ LET c == conns[p]
           new_words == c.all_words \ c.known_words
           known_word_objs == c.all_words \cap c.known_words
           weak_words == known_word_objs \cap c.weak_word_names
           review_words == known_word_objs \cap c.review_word_names
       IN  IF \/ DrawRaises(new_words, NewTarget(c.n))
              \/ DrawRaises(weak_words, WeakTarget(c.n))
              \/ DrawRaises(review_words, ReviewTarget(c.n))
           THEN conns' = [conns EXCEPT ![p].pc = "g_raised"]
           ELSE \E selected_new \in Drawn(new_words, NewTarget(c.n)),
                   selected_weak \in Drawn(weak_words, WeakTarget(c.n)),
                   selected_review \in Drawn(review_words, ReviewTarget(c.n)) :
                  \E filled \in Filled(c.all_words,
                                       SetToSeq(selected_new) \o SetToSeq(selected_weak)
                                          \o SetToSeq(selected_review), c.n) :
                     \E selected \in Shuffled(filled) :
                        conns' = [conns EXCEPT ![p] =
                                     [MarkCall(selected, now) EXCEPT
                                         !.from_get = TRUE] @@
                                     [selected_weak |-> selected_weak,
                                      selected_review |-> selected_review]]
    /\ UNCHANGED <<word_stats, quiz_history, now, lastCall>>

\* SpecRace: request r1 records outcomes while request r2 draws sessions
NextRace ==
    \/ \E word \in Words, correct \in BOOLEAN :
          /\ Len(quiz_history) + Cardinality(Open \cap {"r1"}) < MaxSessionOutcomes
          /\ Connect("r1", word, correct, "web")
    \/ InsertHistory("r1")
    \/ SelectRow("r1")
    \/ WriteRow("r1")
    \/ Commit("r1")
    \/ ReturnRequest("r1")
    \/ \E all_words \in SUBSET Words, n \in 1..MaxN : GetConnect("r2", all_words, n)
    \/ GetKnown("r2")
    \/ GetWeak("r2")
    \/ GetReview("r2")
    \/ GetDraw("r2")
    \/ MarkSelect("r2")
    \/ MarkWrite("r2")
    \/ MarkCommit("r2")
    \/ MarkReturn("r2")
    \/ Unwind("r2")
    \/ Tick

SpecRace == Init /\ [][NextRace]_vars

\* SpecMarks: request r1 records outcomes or marks words while request r2
\* marks words
NextMarks ==
    \/ \E word \in Words, correct \in BOOLEAN :
          /\ Len(quiz_history) + Cardinality(Open \cap {"r1"}) < MaxSessionOutcomes
          /\ Connect("r1", word, correct, "web")
    \/ InsertHistory("r1")
    \/ SelectRow("r1")
    \/ WriteRow("r1")
    \/ Commit("r1")
    \/ ReturnRequest("r1")
    \/ \E p \in Requests, word_list \in WordLists(Words) : MarkConnect(p, word_list)
    \/ \E p \in Requests : MarkSelect(p)
    \/ \E p \in Requests : MarkWrite(p)
    \/ \E p \in Requests : MarkCommit(p)
    \/ \E p \in Requests : MarkReturn(p)
    \/ \E p \in Requests : Unwind(p)

SpecMarks == Init /\ [][NextMarks]_vars

\* ------------------------------------------------------------------------
\* Sessions without end
\* ------------------------------------------------------------------------
\* a session over the whole vocabulary that returns word w
SessionReturning(w) ==
    /\ \E n \in 2..MaxN : GetWordsForQuiz(SessionWords, n)
    /\ ~lastCall'.raised
    /\ w \in SeqRange(lastCall'.selected)

\* SpecSessions: sessions of n >= 2 over SessionWords, one after the other,
\* the words answered with any outcome while the clock runs
NextSessions ==
    \/ \E n \in 2..MaxN : GetWordsForQuiz(SessionWords, n)
    \/ \E word \in SessionWords, correct \in BOOLEAN :
          /\ Len(quiz_history) < MaxSessionOutcomes
          /\ RecordQuizResult(word, correct, "standard")
    \/ Tick
    \/ Return

\* the sessions never stop, every call returns, and random.sample and
\* random.shuffle are fair: a word that sessions can return again and again
\* is returned again and again
SpecSessions ==
    /\ Init /\ [][NextSessions]_vars
    /\ WF_vars(Return)
    /\ WF_vars(\E n \in 2..MaxN : GetWordsForQuiz(SessionWords, n))
    /\ \A w \in SessionWords : SF_vars(SessionReturning(w))

\* ------------------------------------------------------------------------
\* Sessions over one category
\* ------------------------------------------------------------------------
\* SpecCategory: the table holds rows of every word of SessionWords, the
\* sessions are drawn from the category Words (run_quiz filters the
\* vocabulary by category before it calls get_words_for_quiz)
NextCategory ==
    \/ \E n \in 1..MaxN : GetWordsForQuiz(Words, n)
    \/ \E word \in SessionWords, correct \in BOOLEAN :
          /\ Len(quiz_history) < MaxSessionOutcomes
          /\ RecordQuizResult(word, correct, "standard")
    \/ Tick
    \/ Return

SpecCategory == Init /\ [][NextCategory]_vars

\* ------------------------------------------------------------------------
\* Properties
\* ------------------------------------------------------------------------
HasRow(w) == word_stats[w] # NoRow

\* the upper end of the range the docstring of record_quiz_result gives
EF_MAX == 250

Recorded == lastCall.op = "record_quiz_result"
Marked == lastCall.op = "mark_words_selected"
Selected == lastCall.op = "get_words_for_quiz"

\* the row record_quiz_result has just written
RecordedRow == word_stats[lastCall.word]

\* C1: every stored row has easiness_factor >= 1.3, whatever outcomes and
\* selections came before.
C1_EFNeverBelowMinimum ==
    \A w \in Words : HasRow(w) => word_stats[w].easiness_factor >= EF_MIN

\* C1 witness: an incorrect outcome whose formula value falls below 1.3 has
\* been recorded, and the row holds 1.3.
C1_Witness ==
    /\ Recorded /\ ~lastCall.correct /\ lastCall.prior # NoRow
    /\ EFUpdateNoFloor(lastCall.prior.easiness_factor, QUALITY_INCORRECT) < EF_MIN
    /\ RecordedRow.easiness_factor = EF_MIN

\* C2 (as claimed): every stored row has 1.3 <= easiness_factor <= 2.5.
C2_EFWithinDocumentedRange ==
    \A w \in Words :
        HasRow(w) => /\ word_stats[w].easiness_factor >= EF_MIN
                     /\ word_stats[w].easiness_factor <= EF_MAX

FreshStreak(p, k) ==
    /\ p # NoRow
    /\ p.times_seen = k /\ p.times_correct = k /\ p.consecutive_correct = k
    /\ p.easiness_factor = DEFAULT_EF + 10 * (k - 1)

\* C4: from no row, three correct outcomes in a row leave interval_days 1,
\* then 6, then 6 times the easiness factor of the row, and each time
\* next_review = now + interval_days.
C4_FirstThreeIntervals ==
    Recorded /\ lastCall.correct =>
        /\ lastCall.prior = NoRow => RecordedRow.interval_days = Days(1)
        /\ FreshStreak(lastCall.prior, 1) => RecordedRow.interval_days = Days(6)
        /\ FreshStreak(lastCall.prior, 2) =>
              /\ RecordedRow.interval_days = MulEF(Days(6), RecordedRow.easiness_factor)
              /\ RecordedRow.interval_days = [num |-> 162, exp |-> 1]
        /\ (lastCall.prior = NoRow \/ FreshStreak(lastCall.prior, 1)
               \/ FreshStreak(lastCall.prior, 2)) =>
              RecordedRow.next_review = DecAdd(Days(now), RecordedRow.interval_days)

\* C4 witness: the third correct outcome from no row has been recorded, the
\* interval before it being 6 days.
C4_Witness ==
    /\ Recorded /\ lastCall.correct /\ FreshStreak(lastCall.prior, 2)
    /\ lastCall.prior.interval_days = Days(6)
    /\ FreshStreak(RecordedRow, 3)

\* the record of the scenario: seen 3 times, 3 correct, EF 2.5, interval 6,
\* streak 2
ScenarioRow ==
    [times_seen |-> 3, times_correct |-> 3, last_seen |-> Days(0),
     next_review |-> Days(6), easiness_factor |-> 250, interval_days |-> Days(6),
     consecutive_correct |-> 2, last_selected |-> NULL]

\* C5 (as claimed): a correct outcome that brings the streak to 3 or more
\* leaves interval_days = previous interval_days times the easiness factor
\* the row held before the outcome.
C5_IntervalTimesPriorEF ==
    (Recorded /\ lastCall.correct /\ lastCall.prior # NoRow
        /\ RecordedRow.consecutive_correct >= 3) =>
            RecordedRow.interval_days =
                MulEF(lastCall.prior.interval_days, lastCall.prior.easiness_factor)

\* C5 (amended): a correct outcome that brings the streak to 3 or more leaves
\* interval_days = previous interval_days times the easiness factor this
\* outcome stores (the previous one plus 0.1) and next_review = now +
\* interval_days; for the record of the scenario it yields streak 3, EF 2.6,
\* interval_days 15.6 and next_review = now + 15.6 days.
C5_IntervalTimesNewEF ==
    /\ (Recorded /\ lastCall.correct /\ lastCall.prior # NoRow
          /\ RecordedRow.consecutive_correct >= 3) =>
              /\ RecordedRow.easiness_factor = lastCall.prior.easiness_factor + 10
              /\ RecordedRow.interval_days =
                    MulEF(lastCall.prior.interval_days, RecordedRow.easiness_factor)
              /\ RecordedRow.next_review = DecAdd(Days(now), RecordedRow.interval_days)
    /\ LET r == UpdatedRow(ScenarioRow, TRUE, now)
       IN  /\ r.consecutive_correct = 3
           /\ r.easiness_factor = 260
           /\ r.interval_days = [num |-> 156, exp |-> 1]
           /\ r.next_review = DecAdd(Days(now), [num |-> 156, exp |-> 1])

\* C5 witness: a correct outcome has brought a streak to 3 or more.
C5_Witness ==
    /\ Recorded /\ lastCall.correct /\ lastCall.prior # NoRow
    /\ lastCall.prior.consecutive_correct >= 2
    /\ RecordedRow.consecutive_correct >= 3

\* C6: a correct outcome that follows a correct outcome of the same item
\* leaves interval_days at least what the earlier one left.
C6_IntervalsNonDecreasing ==
    (Recorded /\ lastCall.correct /\ lastCall.prior # NoRow
        /\ lastCall.prior.consecutive_correct >= 1) =>
            DecLeq(lastCall.prior.interval_days, RecordedRow.interval_days)

\* C6 witness: the fourth correct outcome of a run has been recorded, after
\* failures had lowered the easiness factor, and the interval has grown.
C6_Witness ==
    /\ Recorded /\ lastCall.correct /\ lastCall.prior # NoRow
    /\ lastCall.prior.consecutive_correct >= 3
    /\ lastCall.prior.times_correct < lastCall.prior.times_seen
    /\ DecLt(lastCall.prior.interval_days, RecordedRow.interval_days)

\* the counters of a word in a table, a word without a row counting as 0
SeenIn(stats, w) == IF stats[w] = NoRow THEN 0 ELSE stats[w].times_seen
CorrectIn(stats, w) == IF stats[w] = NoRow THEN 0 ELSE stats[w].times_correct

\* C7: 0 <= times_correct <= times_seen in every row; record_quiz_result adds
\* 1 to times_seen and 1 (correct) or 0 (incorrect) to times_correct;
\* mark_words_selected, alone or at the end of get_words_for_quiz, changes
\* neither counter of any word.
C7_Counters ==
    /\ \A w \in Words :
          HasRow(w) => /\ 0 <= word_stats[w].times_correct
                       /\ word_stats[w].times_correct <= word_stats[w].times_seen
    /\ Recorded =>
          /\ RecordedRow.times_seen =
                (IF lastCall.prior = NoRow THEN 0 ELSE lastCall.prior.times_seen) + 1
          /\ RecordedRow.times_correct =
                (IF lastCall.prior = NoRow THEN 0 ELSE lastCall.prior.times_correct)
                   + (IF lastCall.correct THEN 1 ELSE 0)
    /\ (Marked \/ Selected) =>
          \A w \in Words : /\ SeenIn(word_stats, w) = SeenIn(lastCall.prior, w)
                           /\ CorrectIn(word_stats, w) = CorrectIn(lastCall.prior, w)

\* C7 witness: mark_words_selected has created a row and updated another
\* whose counters are not zero.
C7_Witness ==
    /\ Marked
    /\ \E w \in Words : lastCall.prior[w] = NoRow /\ HasRow(w)
    /\ \E w \in Words : /\ lastCall.prior[w] # NoRow
                        /\ lastCall.prior[w].times_correct >= 1
                        /\ lastCall.prior[w].last_selected # word_stats[w].last_selected

NoDuplicates(s) == \A i, j \in 1..Len(s) : s[i] = s[j] => i = j

\* C8 (as claimed): for n >= 1 the sequence get_words_for_quiz returns has no
\* duplicate id and at most min(n, |vocabulary|) items.
C8_NoDuplicatesAtMostN ==
    (Selected /\ lastCall.n >= 1 /\ ~lastCall.raised) =>
        /\ NoDuplicates(lastCall.selected)
        /\ Len(lastCall.selected) <= Min(lastCall.n, Cardinality(lastCall.all_words))

\* C9 (as claimed): for n >= 1 get_words_for_quiz returns exactly
\* min(n, |vocabulary|) items.
C9_ExactlyMinItems ==
    (Selected /\ lastCall.n >= 1) =>
        /\ ~lastCall.raised
        /\ Len(lastCall.selected) = Min(lastCall.n, Cardinality(lastCall.all_words))

\* C10 (as claimed): with n <= 0 get_words_for_quiz returns the empty
\* sequence, raises nothing and leaves every row as it was; with an empty
\* vocabulary it returns the empty sequence.
C10_NonPositiveNReturnsEmpty ==
    Selected =>
        /\ lastCall.n <= 0 => /\ ~lastCall.raised
                              /\ lastCall.selected = <<>>
                              /\ word_stats = lastCall.prior
        /\ lastCall.all_words = {} => ~lastCall.raised /\ lastCall.selected = <<>>
\* ------------------------------------------------------------------------
\* The frame of a selection
\* ------------------------------------------------------------------------
\* the session a call of get_words_for_quiz returned
Returned == Selected /\ ~lastCall.raised
Session == SeqRange(lastCall.selected)

\* C11: after get_words_for_quiz returns a session, every item of the session
\* has a row whose last_selected is the time of the call (an item that had no
\* row gets the zero-outcome row, an item that had one keeps its other
\* columns), and every item outside the session has the row it had before:
\* no row created, no last_selected changed
C11_SelectionMarksExactlySession ==
    Returned =>
        /\ \A w \in Session :
              /\ HasRow(w)
              /\ word_stats[w].last_selected = Days(now)
              /\ IF lastCall.prior[w] = NoRow
                 THEN word_stats[w] = SelectedRow(now)
                 ELSE word_stats[w] = [lastCall.prior[w] EXCEPT !.last_selected = Days(now)]
        /\ \A w \in Words \ Session : word_stats[w] = lastCall.prior[w]

\* a session holding an item that was selected at an earlier time, while an
\* item with a row stays outside the session
C11_Witness ==
    /\ Returned
    /\ \E w \in Session :
          /\ lastCall.prior[w] # NoRow
          /\ lastCall.prior[w].last_selected # NULL
          /\ lastCall.prior[w].last_selected # Days(now)
    /\ \E w \in Words \ Session :
          /\ lastCall.prior[w] # NoRow
          /\ lastCall.prior[w].last_selected # Days(now)

\* ------------------------------------------------------------------------
\* The buckets of get_words_for_quiz
\* ------------------------------------------------------------------------
\* C12: the New, Weak and Review buckets computed in one call of
\* get_words_for_quiz are pairwise disjoint
C12_BucketsDisjoint ==
    Selected =>
        /\ lastCall.new_words \cap lastCall.weak_words = {}
        /\ lastCall.new_words \cap lastCall.review_words = {}
        /\ lastCall.weak_words \cap lastCall.review_words = {}

\* a call where a Weak and a Review item are both in their buckets
C12_Witness ==
    /\ Selected
    /\ lastCall.weak_words # {}
    /\ lastCall.review_words # {}

\* the vocabulary items the documented Weak rule names: a row with at least
\* one outcome that is due, or whose success ratio is below 0.7
WeakByRule(all_words, stats, t) ==
    {w \in all_words \cap KnownWords(stats) :
        /\ stats[w].times_seen > 0
        /\ \/ stats[w].next_review # NULL /\ DecLeq(stats[w].next_review, Days(t))
           \/ 10 * stats[w].times_correct < 7 * stats[w].times_seen}

\* C13: every vocabulary item with at least one outcome that is due or has a
\* success ratio below 0.7 is in the Weak bucket of get_words_for_quiz,
\* whatever n (here every n >= 1) and whatever other rows the store holds
C13_WeakBucketComplete ==
    (Selected /\ lastCall.n >= 1) =>
        WeakByRule(lastCall.all_words, lastCall.prior, now) \subseteq lastCall.weak_words

\* the vocabulary items the documented Review rule names
ReviewByRule(all_words, stats, t) ==
    {w \in all_words \cap KnownWords(stats) :
        /\ stats[w].times_seen > 0
        /\ 10 * stats[w].times_correct >= 7 * stats[w].times_seen
        /\ stats[w].next_review # NULL /\ DecLt(Days(t), stats[w].next_review)
        /\ \/ stats[w].last_selected = NULL
           \/ DecLt(DecAdd(stats[w].last_selected, Days(1)), Days(t))}

\* C14: the Review bucket of get_words_for_quiz is exactly the set of
\* vocabulary items whose row has a success ratio of at least 0.7, a
\* next_review strictly after now and a last_selected that is null or more
\* than 24 hours before now, whatever n (here every n >= 1) and whatever
\* other rows the store holds
C14_ReviewBucketExact ==
    (Selected /\ lastCall.n >= 1) =>
        lastCall.review_words = ReviewByRule(lastCall.all_words, lastCall.prior, now)

\* ------------------------------------------------------------------------
\* Rows without outcomes in the ratio-based results
\* ------------------------------------------------------------------------
WeakWordsCalled == lastCall.op = "get_weak_words"
StatsCalled == lastCall.op = "get_stats"
DetailedStatsCalled == lastCall.op = "get_detailed_stats"

\* C15: a row with times_seen = 0 is in no ratio-based result: not in the
\* Weak or Review bucket of get_words_for_quiz, not in the list of
\* get_weak_words, and not in the weakest or top-performing lists of
\* get_stats and get_detailed_stats
C15_ZeroSeenExcluded ==
    /\ Selected =>
          \A w \in lastCall.weak_words \cup lastCall.review_words :
              lastCall.prior[w].times_seen > 0
    /\ WeakWordsCalled =>
          \A i \in 1..Len(lastCall.weak_words) :
              word_stats[lastCall.weak_words[i]].times_seen > 0
    /\ StatsCalled =>
          \A i \in 1..Len(lastCall.weak_words) : lastCall.weak_words[i].seen > 0
    /\ DetailedStatsCalled =>
          /\ \A i \in 1..Len(lastCall.top_words) : lastCall.top_words[i].seen > 0
          /\ \A i \in 1..Len(lastCall.weak_words) : lastCall.weak_words[i].seen > 0

\* ------------------------------------------------------------------------
\* First outcome of an item
\* ------------------------------------------------------------------------
\* the columns an outcome writes
OutcomeColumns(r) ==
    [times_seen |-> r.times_seen,
     times_correct |-> r.times_correct,
     easiness_factor |-> r.easiness_factor,
     interval_days |-> r.interval_days,
     consecutive_correct |-> r.consecutive_correct,
     next_review |-> r.next_review]

\* C16: recording an outcome for an item without a row leaves the same
\* times_seen, times_correct, easiness_factor, interval_days,
\* consecutive_correct and next_review as recording that outcome for an item
\* whose row is the zero-outcome row created by mark_words_selected
C16_UnknownSameAsZeroOutcomeRow ==
    (Recorded /\ lastCall.prior = NoRow) =>
        OutcomeColumns(RecordedRow)
            = OutcomeColumns(UpdatedRow(SelectedRow(now), lastCall.correct, now))

\* ------------------------------------------------------------------------
\* mark_words_selected twice
\* ------------------------------------------------------------------------
\* C17: mark_words_selected is idempotent: after a call, a second call with
\* the same word_list at the same time leaves the table as it is, and every
\* word of the list (which may repeat words and name words without a row)
\* has its one row, with last_selected = now
C17_MarkIdempotent ==
    Marked =>
        /\ MarkAll(word_stats, lastCall.word_list, now) = word_stats
        /\ \A w \in SeqRange(lastCall.word_list) :
              /\ HasRow(w)
              /\ word_stats[w].last_selected = Days(now)

\* a list that names twice a word that had no row
C17_Witness ==
    /\ Marked
    /\ \E i, j \in 1..Len(lastCall.word_list) :
          /\ i < j
          /\ lastCall.word_list[i] = lastCall.word_list[j]
          /\ lastCall.prior[lastCall.word_list[i]] = NoRow

\* ------------------------------------------------------------------------
\* due_for_review
\* ------------------------------------------------------------------------
\* the rows whose next_review has passed, and the rows of the Weak rule
DueRows == {w \in Words : /\ HasRow(w)
                          /\ word_stats[w].next_review # NULL
                          /\ DecLeq(word_stats[w].next_review, Days(now))}
WeakRows == {w \in Words : HasRow(w) /\ WeakWhere(word_stats[w], now)}

\* C18 as stated: due_for_review of get_detailed_stats is the number of rows
\* in the Weak bucket (next_review <= now or success ratio below 0.7)
C18_DueCountIsWeakCount ==
    DetailedStatsCalled => lastCall.due_for_review = Cardinality(WeakRows)

\* C18 amended: due_for_review of get_detailed_stats is the number of rows
\* whose next_review <= now; a row that is Weak only by its success ratio is
\* not counted, so the count never exceeds the number of Weak rows
C18_DueCountIsDueRows ==
    DetailedStatsCalled =>
        /\ lastCall.due_for_review = Cardinality(DueRows)
        /\ lastCall.due_for_review <= Cardinality(WeakRows)

\* statistics read while one row is due exactly now and another is Weak by
\* its ratio only
C18_Witness ==
    /\ DetailedStatsCalled
    /\ \E w \in DueRows : word_stats[w].next_review = Days(now)
    /\ WeakRows \ DueRows # {}

\* ------------------------------------------------------------------------
\* Concurrent outcomes
\* ------------------------------------------------------------------------
\* the rows of quiz_history for word w, in the order they were committed
RECURSIVE OutcomesOf(_, _)
OutcomesOf(history, w) ==
    IF history = <<>> THEN <<>>
    ELSE IF Head(history).word_italian = w
         THEN <<Head(history).correct>> \o OutcomesOf(Tail(history), w)
         ELSE OutcomesOf(Tail(history), w)

\* the row left by recording the outcomes one after the other at time t,
\* starting from row
RECURSIVE OneAfterTheOther(_, _, _)
OneAfterTheOther(row, outcomes, t) ==
    IF outcomes = <<>> THEN row
    ELSE OneAfterTheOther(IF row # NoRow
                          THEN UpdatedRow(row, Head(outcomes), t)
                          ELSE InsertedRow(Head(outcomes), t),
                          Tail(outcomes), t)

\* C19: calls of record_quiz_result that run at once lose no update: every
\* word has one history row per committed call, times_seen counts them all,
\* times_correct the correct ones, and the row is the one left by applying
\* the committed outcomes one after the other in the order of their commits
C19_NoLostUpdate ==
    \A w \in Words :
        LET outcomes == OutcomesOf(quiz_history, w)
        IN  /\ SeenIn(word_stats, w) = Len(outcomes)
            /\ CorrectIn(word_stats, w)
                  = Cardinality({i \in 1..Len(outcomes) : outcomes[i]})
            /\ word_stats[w] = OneAfterTheOther(NoRow, outcomes, now)

\* two calls for the same word, in progress at once, have both committed;
\* one of them had to wait for the other's transaction
C19_Witness ==
    /\ \A p \in Requests : conns[p] # Closed /\ conns[p].pc = "done"
    /\ \A p, q \in Requests : conns[p].word = conns[q].word
    /\ \E p \in Requests : conns[p].waited

\* C20: an outcome update is all-or-nothing: quiz_history and word_stats
\* change only in the commit of a call, where the history row and the
\* word_stats row are written together; a call that fails before its commit
\* raises to its caller and leaves both tables as they are
C20_AllOrNothing ==
    [][/\ (quiz_history' # quiz_history \/ word_stats' # word_stats) =>
             \E p \in Requests :
                 /\ conns[p] # Closed /\ conns[p].pc = "written"
                 /\ conns'[p].pc = "done"
                 /\ Len(quiz_history') = Len(quiz_history) + 1
                 /\ word_stats'[conns[p].word] = conns[p].new_row
       /\ \A p \in Requests :
             (conns[p] # Closed /\ conns[p].pc # "done" /\ conns'[p] = Closed) =>
                 /\ conns[p].pc = "raised"
                 /\ quiz_history' = quiz_history
                 /\ word_stats' = word_stats]_vars

\* a call that failed at its commit, with both writes pending
C20_Witness ==
    \E p \in Requests :
        /\ conns[p] # Closed
        /\ conns[p].pc = "raised"
        /\ conns[p].in_transaction
        /\ conns[p].new_row # NoRow

PriorEF == IF lastCall.prior = NoRow THEN DEFAULT_EF ELSE lastCall.prior.easiness_factor

\* C22: every correct outcome, the first outcome of a word without a row
\* included, adds exactly 0.1 to easiness_factor, with no upper clamp
C22_CorrectAddsTenth ==
    (Recorded /\ lastCall.correct) => RecordedRow.easiness_factor = PriorEF + 10

\* ------------------------------------------------------------------------
\* What a session holds of each bucket
\* ------------------------------------------------------------------------
\* the vocabulary items the documented New rule names: no row
NewByRule(all_words, stats) == all_words \ KnownWords(stats)

\* reviewTarget as documented: n - newTarget - weakTarget, clamped to 0
ClampedReviewTarget(n) == Max(0, n - NewTarget(n) - WeakTarget(n))

\* C23: a session returned by get_words_for_quiz(vocabulary, n), n >= 1,
\* holds at least min(newTarget, |New|) New items, min(weakTarget, |Weak|)
\* Weak items and min(reviewTarget, |Review|) Review items, the buckets being
\* those of the vocabulary when the call was made
C23_BucketMinimums ==
    (Returned /\ lastCall.n >= 1) =>
        LET New == NewByRule(lastCall.all_words, lastCall.prior)
            Weak == WeakByRule(lastCall.all_words, lastCall.prior, now)
            Review == ReviewByRule(lastCall.all_words, lastCall.prior, now)
        IN  /\ Cardinality(Session \cap New)
                  >= Min(NewTarget(lastCall.n), Cardinality(New))
            /\ Cardinality(Session \cap Weak)
                  >= Min(WeakTarget(lastCall.n), Cardinality(Weak))
            /\ Cardinality(Session \cap Review)
                  >= Min(ClampedReviewTarget(lastCall.n), Cardinality(Review))

\* C24: with n = 1, where n - newTarget - weakTarget is negative, the review
\* target counts as 0: get_words_for_quiz returns without raising in every
\* store state, a non-empty Review bucket included
C24_SmallNDoesNotRaise ==
    (Selected /\ lastCall.n = 1) => ~lastCall.raised

\* ------------------------------------------------------------------------
\* A session drawn while an outcome commits
\* ------------------------------------------------------------------------
\* the session a request has drawn, until get_words_for_quiz returns it
Drew(p) ==
    /\ conns[p] # Closed
    /\ conns[p].pc \in {"m_select", "m_write", "m_commit", "m_done", "m_raised"}
    /\ conns[p].from_get

\* C25: when record_quiz_result commits while get_words_for_quiz is between
\* its queries, no word is in both the Weak and the Review draw and the
\* session holds no word twice
C25_NoWordDrawnTwice ==
    \A p \in Requests :
        Drew(p) =>
            /\ conns[p].selected_weak \cap conns[p].selected_review = {}
            /\ NoDuplicates(conns[p].word_list)

\* ------------------------------------------------------------------------
\* Check-then-insert of mark_words_selected
\* ------------------------------------------------------------------------
\* C26: the existence check followed by INSERT in mark_words_selected never
\* ends in a failed INSERT (duplicate primary key), whatever other
\* mark_words_selected or record_quiz_result call creates the row meanwhile
C26_MarkInsertNeverFails ==
    \A p \in Requests : conns[p] = Closed \/ conns[p].pc # "m_raised"


\* ------------------------------------------------------------------------
\* Outcome columns and last_selected
\* ------------------------------------------------------------------------
\* the word_italian values named by a call of mark_words_selected
MarkedWords == SeqRange(lastCall'.word_list)

\* C27: recording and marking touch disjoint columns: record_quiz_result on
\* a word with a row leaves the row's last_selected as it was and leaves
\* the row of every other word as it was; mark_words_selected on a word
\* with a row changes only last_selected: times_seen, times_correct,
\* easiness_factor, interval_days, consecutive_correct, last_seen and
\* next_review stay as they were
C27_DisjointColumns ==
    [][/\ (lastCall = Idle /\ lastCall'.op = "record_quiz_result") =>
             /\ \A w \in TableWords \ {lastCall'.word} :
                    word_stats'[w] = word_stats[w]
             /\ HasRow(lastCall'.word) =>
                    word_stats'[lastCall'.word].last_selected
                        = word_stats[lastCall'.word].last_selected
       /\ (lastCall = Idle /\ lastCall'.op = "mark_words_selected") =>
             \A w \in MarkedWords :
                 HasRow(w) =>
                     /\ OutcomeColumns(word_stats'[w]) = OutcomeColumns(word_stats[w])
                     /\ word_stats'[w].last_seen = word_stats[w].last_seen]_vars

\* an outcome recorded for a word whose row was marked after its previous
\* outcome, while another word has a row
C27_Witness ==
    /\ Recorded
    /\ lastCall.prior # NoRow
    /\ lastCall.prior.last_selected # NULL
    /\ lastCall.prior.last_seen # NULL
    /\ DecLt(lastCall.prior.last_seen, lastCall.prior.last_selected)
    /\ RecordedRow.last_selected = lastCall.prior.last_selected
    /\ \E w \in TableWords \ {lastCall.word} : HasRow(w)


\* ------------------------------------------------------------------------
\* quiz_history and the counters of word_stats
\* ------------------------------------------------------------------------
\* the rows of quiz_history for a word, and those with correct = 1
HistoryRows(w) ==
    {i \in 1..Len(quiz_history) : quiz_history[i].word_italian = w}
CorrectRows(w) == {i \in HistoryRows(w) : quiz_history[i].correct}

\* the sum of a column over the rows of word_stats
RECURSIVE SumOver(_, _)
SumOver(column, names) ==
    IF names = {} THEN 0
    ELSE LET w == CHOOSE x \in names : TRUE
         IN  word_stats[w][column] + SumOver(column, names \ {w})

\* C28: quiz_history is append-only and in step with word_stats: a call of
\* record_quiz_result appends exactly one row (word, correct, quiz_type),
\* no step removes or alters a row, and in every state the number of rows
\* for a word is the word's times_seen and the number of its correct rows
\* is its times_correct, so that total_attempts and total_correct of
\* get_stats are the sums of the two counters over word_stats
C28_HistoryInStep ==
    /\ [](\A w \in TableWords :
            /\ Cardinality(HistoryRows(w))
                  = IF HasRow(w) THEN word_stats[w].times_seen ELSE 0
            /\ Cardinality(CorrectRows(w))
                  = IF HasRow(w) THEN word_stats[w].times_correct ELSE 0)
    /\ [](StatsCalled =>
            /\ lastCall.total_attempts
                  = SumOver("times_seen", KnownWords(word_stats))
            /\ lastCall.total_correct
                  = SumOver("times_correct", KnownWords(word_stats)))
    /\ [][/\ Len(quiz_history') >= Len(quiz_history)
          /\ SubSeq(quiz_history', 1, Len(quiz_history)) = quiz_history
          /\ IF lastCall = Idle /\ lastCall'.op = "record_quiz_result"
             THEN quiz_history' =
                     Append(quiz_history,
                            [word_italian |-> lastCall'.word,
                             correct |-> lastCall'.correct,
                             quiz_type |-> lastCall'.quiz_type])
             ELSE quiz_history' = quiz_history]_vars

\* get_stats after a right and a wrong answer, one of them the first answer
\* for its word, while another word has a row without outcomes
C28_Witness ==
    /\ StatsCalled
    /\ lastCall.total_correct >= 1
    /\ lastCall.total_attempts > lastCall.total_correct
    /\ \E w \in TableWords : HasRow(w) /\ word_stats[w].times_seen = 0
    /\ \E w \in TableWords : HasRow(w) /\ word_stats[w].times_seen >= 2


\* ------------------------------------------------------------------------
\* last_seen and next_review
\* ------------------------------------------------------------------------
\* last_seen of a word's row, NULL when the word has no row
LastSeen(stats, w) == IF stats[w] = NoRow THEN NULL ELSE stats[w].last_seen

\* C29: in every state a row with times_seen = 0 has next_review and
\* last_seen NULL, and a row with times_seen > 0 has both set, with
\* next_review = last_seen + interval_days days; last_seen is the time of
\* the word's most recent outcome: record_quiz_result sets it to the time
\* of the call and no other step changes it
C29_ReviewFollowsLastSeen ==
    /\ [](\A w \in TableWords :
            HasRow(w) =>
                IF word_stats[w].times_seen = 0
                THEN /\ word_stats[w].next_review = NULL
                     /\ word_stats[w].last_seen = NULL
                ELSE /\ word_stats[w].next_review # NULL
                     /\ word_stats[w].last_seen # NULL
                     /\ word_stats[w].next_review
                           = DecAdd(word_stats[w].last_seen,
                                    word_stats[w].interval_days))
    /\ [][\A w \in TableWords :
            IF lastCall = Idle /\ lastCall'.op = "record_quiz_result"
                               /\ lastCall'.word = w
            THEN LastSeen(word_stats', w) = Days(now)
            ELSE LastSeen(word_stats', w) = LastSeen(word_stats, w)]_vars

\* a second outcome in a row for a word, recorded later than the first and
\* moving the interval to six days, while another word has a row without
\* outcomes
C29_Witness ==
    /\ Recorded
    /\ lastCall.prior # NoRow
    /\ lastCall.prior.last_seen # NULL
    /\ DecLt(lastCall.prior.last_seen, RecordedRow.last_seen)
    /\ RecordedRow.interval_days = Days(6)
    /\ \E w \in TableWords : HasRow(w) /\ word_stats[w].times_seen = 0


\* ------------------------------------------------------------------------
\* Mastered items offered less than 24 hours ago
\* ------------------------------------------------------------------------
\* rows that are mastered (success ratio >= 0.7, next_review ahead of t) and
\* were selected at most 24 hours before t
MasteredRecent(stats, w, t) ==
    /\ stats[w] # NoRow
    /\ stats[w].times_seen > 0
    /\ 10 * stats[w].times_correct >= 7 * stats[w].times_seen
    /\ stats[w].next_review # NULL /\ DecLt(Days(t), stats[w].next_review)
    /\ stats[w].last_selected # NULL
    /\ ~DecLt(DecAdd(stats[w].last_selected, Days(1)), Days(t))

\* the number of words the three draws of the last call took together
DrawSize(words, target) ==
    IF words = {} THEN 0 ELSE Min(target, Cardinality(words))
BucketDraws ==
    DrawSize(lastCall.new_words, NewTarget(lastCall.n))
        + DrawSize(lastCall.weak_words, WeakTarget(lastCall.n))
        + DrawSize(lastCall.review_words, ReviewTarget(lastCall.n))

\* C30, as claimed: a mastered item that was in a session less than 24 hours
\* ago is not in the session get_words_for_quiz returns, for every table and
\* every n
C30_MasteredRecentNotReturned ==
    Returned =>
        \A w \in lastCall.all_words :
            MasteredRecent(lastCall.prior, w, now) => w \notin Session

\* C30, amended: a mastered item that was in a session less than 24 hours
\* ago is in none of the New, Weak and Review buckets; a session that
\* get_words_for_quiz returns holds it only through the fallback fill, that
\* is only when the three draws gave fewer than n words
C30_MasteredRecentOnlyByFill ==
    Selected =>
        \A w \in lastCall.all_words :
            MasteredRecent(lastCall.prior, w, now) =>
                /\ w \notin lastCall.new_words
                /\ w \notin lastCall.weak_words
                /\ w \notin lastCall.review_words
                /\ (Returned /\ w \in Session) => BucketDraws < lastCall.n

\* a session that holds, next to a word drawn from a bucket, a mastered
\* word offered less than 24 hours ago
C30_Witness ==
    /\ Returned
    /\ BucketDraws >= 1
    /\ \E w \in lastCall.all_words :
          /\ MasteredRecent(lastCall.prior, w, now)
          /\ w \in Session

====
